---------------------------- MODULE Spec2Model ----------------------------
(***************************************************************************)
(* Model of seekret-source-git (src/load_source.go): LoadObjects and the   *)
(* functions it calls.  The program is sequential; pc is the control       *)
(* point.  libgit2 (git2go) is the environment: the repository behind a    *)
(* handle is the record repo, and a library call that may fail chooses     *)
(* its outcome nondeterministically.                                       *)
(***************************************************************************)
EXTENDS Integers, Sequences, FiniteSets, TLC

VARIABLES
    pc,         \* control point of the running function
    source,     \* LoadObjects / normalizeGitUri argument: a sequence of characters
    opt,        \* SourceGitLoadOptions
    gitUri,     \* result of normalizeGitUri: <<canonical string, isRemote>>
    repo,       \* the repository behind the *git.Repository handle
    args,       \* arguments of objectsFromCommit: commitFiles, commitMessages, count
    walk,       \* *git.RevWalk: the commits still to be handed to the callback
    objs,       \* objectList local to the running extractor
    i,          \* loop counter of objectsFromStagedFiles
    sub,        \* what the extractor returned: [list, err]
    objectList, \* objectList of LoadObjects
    ret,        \* what LoadObjects returned: [list, err]
    tmpdirs,    \* temporary directories present on disk
    log,        \* the calls made by the running LoadObjects, in order
    past,       \* per finished or running LoadObjects call: [remote, dir]
    calls       \* number of LoadObjects calls made so far

vars == <<pc, source, opt, gitUri, repo, args, walk, objs, i, sub,
          objectList, ret, tmpdirs, log, past, calls>>

-----------------------------------------------------------------------------
(* Bounds *)

MaxCommits == 3
MaxCount == 3
MaxCalls == 2
MaxChain == 2

-----------------------------------------------------------------------------
(* Strings are sequences of one-character strings. *)

S_http == <<"h", "t", "t", "p">>
S_https == <<"h", "t", "t", "p", "s">>
S_git == <<"g", "i", "t">>
S_ssh == <<"s", "s", "h">>
S_ftp == <<"f", "t", "p">>
S_colonSlashSlash == <<":", "/", "/">>
S_gitAt == <<"g", "i", "t", "@">>
S_dotGit == <<".", "g", "i", "t">>
S_slash == <<"/">>
S_empty == <<>>

\* The type constant of the package.
Type == "seekret-source-git"

-----------------------------------------------------------------------------
(* normalizeGitUri *)

\* The two alternatives of the leading group (?:(https?|git|ssh)://|(git@)),
\* with the submatches u[1] and u[2] each one sets.
gitregexpPrefixes ==
    { [u1 |-> p, u2 |-> S_empty, lit |-> p \o S_colonSlashSlash] :
        p \in {S_http, S_https, S_git, S_ssh} }
    \cup { [u1 |-> S_empty, u2 |-> S_gitAt, lit |-> S_gitAt] }

HostChar(c) == c \notin {":", "|", "/"}
OrgChar(c) == c # "/"
RepoChar(c) == c \notin {"/", "."}
\* The metacharacter . of (.git): any character but a line break.
DotChar(c) == c # "\n"

AllChars(s, P(_)) == \A j \in 1..Len(s) : P(s[j])

\* Every way the anchored expression
\*   ^(?:(https?|git|ssh)://|(git@))([^:|/]+)(?:/|:)([^/]+)/([^/\.]+)(.git)$
\* matches s: the prefix alternative, the last position h of the host and the
\* last position o of the organisation.
gitregexpMatches(s) ==
    LET n == Len(s) IN
    { m \in [pre : gitregexpPrefixes, h : 1..n, o : 1..n] :
        LET L == Len(m.pre.lit) IN
        /\ L <= n
        /\ SubSeq(s, 1, L) = m.pre.lit
        /\ m.h > L
        /\ AllChars(SubSeq(s, L + 1, m.h), HostChar)
        /\ m.h + 1 <= n
        /\ s[m.h + 1] \in {"/", ":"}
        /\ m.o >= m.h + 2
        /\ AllChars(SubSeq(s, m.h + 2, m.o), OrgChar)
        /\ m.o + 1 <= n
        /\ s[m.o + 1] = "/"
        /\ n - 4 >= m.o + 2
        /\ AllChars(SubSeq(s, m.o + 2, n - 4), RepoChar)
        /\ DotChar(s[n - 3])
        /\ SubSeq(s, n - 2, n) = S_git }

\* regexp.FindStringSubmatch: <<>> without a match, else the whole match
\* followed by the six submatches.
FindStringSubmatch(s) ==
    LET ms == gitregexpMatches(s) IN
    IF ms = {} THEN <<>>
    ELSE LET m == CHOOSE x \in ms : TRUE
             L == Len(m.pre.lit)
             n == Len(s)
         IN <<s, m.pre.u1, m.pre.u2, SubSeq(s, L + 1, m.h),
              SubSeq(s, m.h + 2, m.o), SubSeq(s, m.o + 2, n - 4),
              SubSeq(s, n - 3, n)>>

\* u[k] of the Go slice (indexed from 0).
U(u, k) == u[k + 1]

normalizeGitUri(s) ==
    LET u == FindStringSubmatch(s) IN
    IF Len(u) = 0 THEN <<s, FALSE>>
    ELSE LET proto == IF U(u, 1) \in {S_http, S_https, S_ssh, S_git}
                      THEN U(u, 1) ELSE S_ssh
         IN <<proto \o S_colonSlashSlash \o U(u, 2) \o U(u, 3) \o S_slash
                \o U(u, 4) \o S_slash \o U(u, 5) \o U(u, 6), TRUE>>


-----------------------------------------------------------------------------
(* The repository: the object store, the commit graph, the index. *)

\* Object ids are opaque strings.  The trees of the store, entries in name
\* order as git keeps them.
TreeIds == {"t1", "t2", "td"}
TreeStore ==
    [t \in TreeIds |->
        CASE t = "t1" -> << [name |-> "a", kind |-> "blob", id |-> "b1"] >>
          [] t = "t2" -> << [name |-> "a", kind |-> "blob", id |-> "b2"],
                            [name |-> "d", kind |-> "tree", id |-> "td"],
                            [name |-> "e", kind |-> "blob", id |-> "b1"] >>
          [] t = "td" -> << [name |-> "b", kind |-> "blob", id |-> "b1"] >>]

\* blob.Contents(), commit.Id().String(), commit.Message()
Contents(b) == "contents of " \o b
Hash(c) == "c" \o ToString(c)
Message(c) == "message of c" \o ToString(c)

Range(s) == { s[j] : j \in 1..Len(s) }

\* A commit c of repository r is one of 1..r.n; HEAD is r.n, unborn when
\* r.n = 0.  Parents have smaller numbers than their children.
ParentChoices(c) ==
    {<<>>} \cup { <<p>> : p \in 1..(c - 1) }
           \cup { pq \in (1..(c - 1)) \X (1..(c - 1)) : pq[1] # pq[2] }

RECURSIVE Graphs(_)
Graphs(n) ==
    IF n = 0 THEN {<<>>}
    ELSE { Append(g, ps) : g \in Graphs(n - 1), ps \in ParentChoices(n) }

\* Commit times: rising with the commit number, so that every child is
\* later than its parents, or falling, so that every child is earlier.
Times(n) == { [c \in 1..n |-> c], [c \in 1..n |-> n + 1 - c] }

RECURSIVE Reach(_, _)
Reach(r, c) == {c} \cup UNION { Reach(r, p) : p \in Range(r.parents[c]) }

\* HEAD~m: the m-th first-parent ancestor of c, 0 when there is none.
RECURSIVE FirstParentAncestor(_, _, _)
FirstParentAncestor(r, c, m) ==
    IF m = 0 THEN c
    ELSE IF r.parents[c] = <<>> THEN 0
    ELSE FirstParentAncestor(r, r.parents[c][1], m - 1)

HeadCommit(r) == r.n
Reachable(r) == IF r.n = 0 THEN {} ELSE Reach(r, HeadCommit(r))

\* git_revparse of "HEAD~count..HEAD": 0 when the range does not resolve.
RangeFrom(r, count) ==
    IF r.n = 0 THEN 0 ELSE FirstParentAncestor(r, HeadCommit(r), count)

\* walk.Sorting(git.SortTime): the pushed commits, latest commit time first.
RECURSIVE SortTime(_, _)
SortTime(r, set) ==
    IF set = {} THEN <<>>
    ELSE LET c == CHOOSE x \in set : \A y \in set : r.ctime[y] <= r.ctime[x]
         IN <<c>> \o SortTime(r, set \ {c})

\* git_tree_walk, pre-order: every entry is handed to the callback; a
\* subtree that cannot be loaded ends the walk with an error.
RECURSIVE TreeWalkFrom(_, _, _, _)
TreeWalkFrom(r, t, base, j) ==
    IF j > Len(TreeStore[t]) THEN [visited |-> <<>>, err |-> FALSE]
    ELSE LET e == TreeStore[t][j]
             here == << [base |-> base, entry |-> e] >>
             rest == TreeWalkFrom(r, t, base, j + 1)
         IN IF e.kind = "tree"
            THEN IF e.id \in r.missing
                 THEN [visited |-> here, err |-> TRUE]
                 ELSE LET s == TreeWalkFrom(r, e.id, base \o e.name \o "/", 1)
                      IN IF s.err
                         THEN [visited |-> here \o s.visited, err |-> TRUE]
                         ELSE [visited |-> here \o s.visited \o rest.visited,
                               err |-> rest.err]
            ELSE [visited |-> here \o rest.visited, err |-> rest.err]

TreeWalk(r, t) == TreeWalkFrom(r, t, "", 1)

-----------------------------------------------------------------------------
(* Objects *)

Meta(k, v, primary) == [key |-> k, value |-> v, primary |-> primary]

\* models.NewObject(name, Type, subtype, content) followed by SetMetadata.
CommitMessageObject(c) ==
    [name |-> "commit-" \o Hash(c), type |-> Type, subtype |-> "commit-message",
     content |-> Message(c),
     metadata |-> << Meta("commit", Hash(c), FALSE) >>]

FileContentObject(c, v) ==
    [name |-> v.base \o v.entry.name, type |-> Type, subtype |-> "file-content",
     content |-> Contents(v.entry.id),
     metadata |-> << Meta("commit", Hash(c), FALSE),
                     Meta("uniq-id", v.entry.id, TRUE) >>]

StagedObject(e) ==
    [name |-> e.path, type |-> Type, subtype |-> "file-content",
     content |-> Contents(e.id),
     metadata |-> << Meta("status", "staged", FALSE) >>]

NoErr == "nil"
Nil == <<>>

\* The tree every commit points to, and the repositories with no commit.
RootOf(n) == [c \in 1..n |-> IF c % 2 = 1 THEN "t2" ELSE "t1"]
IndexPaths == <<"a", "d/b", "e", "n">>
NoWork == [p \in Range(IndexPaths) |-> "none"]
NoRepo ==
    [n |-> 0, parents |-> <<>>, ctime |-> <<>>, root |-> <<>>,
     badTrees |-> {}, missing |-> {}, index |-> <<>>, work |-> NoWork]
NoArgs == [commitFiles |-> FALSE, commitMessages |-> FALSE, count |-> 0]
NoOpt ==
    [CommitFiles |-> FALSE, CommitMessages |-> FALSE, StagedFiles |-> FALSE,
     CommitCount |-> 0]
NoSub == [list |-> Nil, err |-> NoErr]

-----------------------------------------------------------------------------
(* objectsFromCommit *)

\* Lines 104-118: what is pushed on the walk, or the error returned.
\* headOk: whether walk.PushHead() succeeds.
PushResult_NoFallback(r, count, headOk) ==
    IF count > 0 /\ RangeFrom(r, count) = 0
    THEN [err |-> "ErrPushRange", set |-> {}]
    ELSE IF count > 0
    THEN [err |-> NoErr,
          set |-> Reachable(r) \ Reach(r, RangeFrom(r, count))]
    ELSE IF headOk THEN [err |-> NoErr, set |-> Reachable(r)]
    ELSE [err |-> "ErrPushHead", set |-> {}]

PushResult(r, count, headOk) ==
    IF count > 0 /\ RangeFrom(r, count) # 0
    THEN [err |-> NoErr,
          set |-> Reachable(r) \ Reach(r, RangeFrom(r, count))]
    ELSE IF headOk THEN [err |-> NoErr, set |-> Reachable(r)]
    ELSE [err |-> "ErrPushHead", set |-> {}]

\* PushHead fails on an unborn HEAD, and may fail on any other.
HeadOutcomes(r) == IF r.n = 0 THEN {FALSE} ELSE BOOLEAN

\* Lines 135-152: the objects appended while walking the tree of commit c.
FileObjects(r, c) ==
    LET visited == TreeWalk(r, r.root[c]).visited
        Keep(v) == v.entry.kind = "blob" /\ v.entry.id \notin r.missing
        sel == SelectSeq(visited, Keep)
    IN [j \in 1..Len(sel) |-> FileContentObject(c, sel[j])]

\* Lines 120-156: the callback on commit c.  commit.Tree() failing leaves
\* tree nil, and tree.Walk on a nil tree is a nil dereference.
Callback(r, a, c) ==
    LET treeNil == c \in r.badTrees
        msgs == IF a.commitMessages THEN << CommitMessageObject(c) >> ELSE <<>>
    IN IF a.commitFiles /\ treeNil
       THEN [panic |-> TRUE, objects |-> msgs]
       ELSE [panic |-> FALSE,
             objects |-> msgs \o (IF a.commitFiles THEN FileObjects(r, c)
                                                   ELSE <<>>)]

\* Lines 99-102: repo.Walk()
OC_Walk ==
    /\ pc = "oc_walk"
    /\ \E ok \in BOOLEAN :
         IF ok THEN pc' = "oc_push" /\ UNCHANGED sub
         ELSE pc' = "oc_ret" /\ sub' = [list |-> Nil, err |-> "ErrWalk"]
    /\ UNCHANGED <<source, opt, gitUri, repo, args, walk, objs, i,
                   objectList, ret, tmpdirs, log, past, calls>>

\* Lines 104-118: PushRange, PushHead, Sorting
OC_Push ==
    /\ pc = "oc_push"
    /\ \E headOk \in HeadOutcomes(repo) :
         LET p == PushResult(repo, args.count, headOk) IN
         IF p.err = NoErr
         THEN /\ walk' = SortTime(repo, p.set)
              /\ pc' = "oc_iter"
              /\ UNCHANGED sub
         ELSE /\ sub' = [list |-> Nil, err |-> p.err]
              /\ pc' = "oc_ret"
              /\ UNCHANGED walk
    /\ UNCHANGED <<source, opt, gitUri, repo, args, objs, i,
                   objectList, ret, tmpdirs, log, past, calls>>

\* Lines 120-162: one round of walk.Iterate, and the return after it.
OC_Iterate ==
    /\ pc = "oc_iter"
    /\ \E ok \in BOOLEAN :
         IF ~ok
         THEN /\ sub' = [list |-> Nil, err |-> "ErrIterate"]
              /\ pc' = "oc_ret"
              /\ UNCHANGED <<walk, objs>>
         ELSE IF walk = <<>>
         THEN /\ sub' = [list |-> objs, err |-> NoErr]
              /\ pc' = "oc_ret"
              /\ UNCHANGED <<walk, objs>>
         ELSE LET cb == Callback(repo, args, walk[1]) IN
              IF cb.panic
              THEN /\ pc' = "panic"
                   /\ UNCHANGED <<walk, objs, sub>>
              ELSE /\ objs' = objs \o cb.objects
                   /\ walk' = Tail(walk)
                   /\ pc' = "oc_iter"
                   /\ UNCHANGED sub
    /\ UNCHANGED <<source, opt, gitUri, repo, args, i,
                   objectList, ret, tmpdirs, log, past, calls>>

-----------------------------------------------------------------------------
(* objectsFromStagedFiles *)

\* The blob HEAD holds at a path, "none" when HEAD has no such path.
HeadBlob(r, path) ==
    IF r.n = 0 THEN "none"
    ELSE LET all == TreeWalk([missing |-> {}], r.root[HeadCommit(r)]).visited
             hit == { j \in 1..Len(all) :
                        /\ all[j].entry.kind = "blob"
                        /\ all[j].base \o all[j].entry.name = path }
         IN IF hit = {} THEN "none" ELSE all[CHOOSE j \in hit : TRUE].entry.id

\* repo.StatusFile(path) of an index entry e: the flags of HEAD against the
\* index and of the index against the working tree.
StatusCurrent == {}
StatusFile(r, e) ==
    LET h == HeadBlob(r, e.path)
        w == r.work[e.path]
    IN (IF h = "none" THEN {"IndexNew"} ELSE {})
       \cup (IF h # "none" /\ h # e.id THEN {"IndexModified"} ELSE {})
       \cup (IF w = "none" THEN {"WtDeleted"} ELSE {})
       \cup (IF w # "none" /\ w # e.id THEN {"WtModified"} ELSE {})

\* Lines 169-172: repo.Index()
ST_Index ==
    /\ pc = "sf_index"
    /\ \E ok \in BOOLEAN :
         IF ok THEN pc' = "sf_loop" /\ i' = 0 /\ UNCHANGED sub
         ELSE pc' = "sf_ret" /\ sub' = [list |-> Nil, err |-> "ErrIndex"]
                             /\ UNCHANGED i
    /\ UNCHANGED <<source, opt, gitUri, repo, args, walk, objs,
                   objectList, ret, tmpdirs, log, past, calls>>

\* Lines 174-200: one round of the loop over the index, or the return after
\* it.  EntryByIndex cannot fail below EntryCount.
ST_Entry ==
    /\ pc = "sf_loop"
    /\ IF i >= Len(repo.index)
       THEN /\ sub' = [list |-> objs, err |-> NoErr]
            /\ pc' = "sf_ret"
            /\ UNCHANGED <<i, objs>>
       ELSE \E statusOk \in BOOLEAN :
            LET entry == repo.index[i + 1] IN
            IF ~statusOk
            THEN /\ sub' = [list |-> Nil, err |-> "ErrStatus"]
                 /\ pc' = "sf_ret"
                 /\ UNCHANGED <<i, objs>>
            ELSE IF StatusFile(repo, entry) # StatusCurrent
            THEN IF entry.id \in repo.missing
                 THEN /\ sub' = [list |-> Nil, err |-> "ErrLookupBlob"]
                      /\ pc' = "sf_ret"
                      /\ UNCHANGED <<i, objs>>
                 ELSE /\ objs' = Append(objs, StagedObject(entry))
                      /\ i' = i + 1
                      /\ pc' = "sf_loop"
                      /\ UNCHANGED sub
            ELSE /\ i' = i + 1
                 /\ pc' = "sf_loop"
                 /\ UNCHANGED <<objs, sub>>
    /\ UNCHANGED <<source, opt, gitUri, repo, args, walk,
                   objectList, ret, tmpdirs, log, past, calls>>

\* The index and working tree of a repository: per path, in path order, the
\* blob in the index ("none": no entry) and the blob in the working tree.
IndexOf(f) ==
    LET Present(p) == f[p] # "none"
        paths == SelectSeq(IndexPaths, Present)
    IN [j \in 1..Len(paths) |-> [path |-> paths[j], id |-> f[paths[j]]]]

PathStates == [Range(IndexPaths) -> {"none", "b1", "b2"}]

\* A chain of n commits, each the parent of the next, in commit-time order.
Chain(n) == [c \in 1..n |-> IF c = 1 THEN <<>> ELSE <<c - 1>>]
Ident(n) == [c \in 1..n |-> c]

\* The repositories objectsFromStagedFiles is run on.
IndexAndWork ==
    { fw \in PathStates \X PathStates :
        \A p \in Range(IndexPaths) : fw[1][p] = "none" => fw[2][p] = "none" }

StagedRepos ==
    { [n |-> n, parents |-> Chain(n), ctime |-> Ident(n), root |-> RootOf(n),
       badTrees |-> {}, missing |-> miss, index |-> IndexOf(fw[1]),
       work |-> fw[2]] :
        n \in 0..MaxChain, miss \in {{}, {"b1"}}, fw \in IndexAndWork }

InitStaged ==
    /\ pc = "sf_index"
    /\ repo \in StagedRepos
    /\ args = NoArgs
    /\ source = S_empty
    /\ opt = NoOpt
    /\ gitUri = <<S_empty, FALSE>>
    /\ walk = <<>>
    /\ objs = <<>>
    /\ i = 0
    /\ sub = NoSub
    /\ objectList = <<>>
    /\ ret = NoSub
    /\ tmpdirs = {}
    /\ log = <<>>
    /\ past = <<>>
    /\ calls = 0

NextStaged == ST_Index \/ ST_Entry

SpecStaged == InitStaged /\ [][NextStaged]_vars

-----------------------------------------------------------------------------
(* objectsFromCommit on its own *)

\* The repositories objectsFromCommit is run on.
HistoryReposOf(n) ==
    { [n |-> n, parents |-> g, ctime |-> t, root |-> RootOf(n),
       badTrees |-> bad, missing |-> miss, index |-> <<>>, work |-> NoWork] :
        g \in Graphs(n), t \in Times(n),
        bad \in {{}} \cup { {c} : c \in 1..n },
        miss \in {{}, {"b1"}, {"td"}} }

HistoryRepos == UNION { HistoryReposOf(n) : n \in 0..MaxCommits }

InitHistory ==
    /\ pc = "oc_walk"
    /\ repo \in HistoryRepos
    /\ args \in [commitFiles : BOOLEAN, commitMessages : BOOLEAN,
                 count : 0..MaxCount]
    /\ source = S_empty
    /\ opt = NoOpt
    /\ gitUri = <<S_empty, FALSE>>
    /\ walk = <<>>
    /\ objs = <<>>
    /\ i = 0
    /\ sub = NoSub
    /\ objectList = <<>>
    /\ ret = NoSub
    /\ tmpdirs = {}
    /\ log = <<>>
    /\ past = <<>>
    /\ calls = 0

NextHistory == OC_Walk \/ OC_Push \/ OC_Iterate

SpecHistory == InitHistory /\ [][NextHistory]_vars

-----------------------------------------------------------------------------
(* LoadObjects *)

\* Lines 39-65: the options map holds, per key, a value of the expected type
\* or nothing usable (the key absent, or a value of another type).
OptMaps ==
    [commitFiles : {"absent", "true", "false"},
     commitMessages : {"absent", "true", "false"},
     stagedFiles : {"absent", "true", "false"},
     commitCount : {[isInt |-> FALSE, v |-> 0]}
                   \cup { [isInt |-> TRUE, v |-> n] : n \in 0..MaxCount }]

prepareGitLoadOptions(o) ==
    [CommitFiles |-> o.commitFiles = "true",
     CommitMessages |-> o.commitMessages = "true",
     StagedFiles |-> o.stagedFiles = "true",
     CommitCount |-> IF o.commitCount.isInt THEN o.commitCount.v ELSE 0]

\* The sources LoadObjects is called with: a local path, the scp-like and
\* the https form of a remote, and a remote-looking string of an unknown
\* protocol.
Sources ==
    { <<"/", "r">>,
      S_gitAt \o <<"h", ":", "o", "/", "r">> \o S_dotGit,
      S_https \o S_colonSlashSlash \o <<"h", "/", "o", "/", "r">> \o S_dotGit,
      S_ftp \o S_colonSlashSlash \o <<"h", "/", "o", "/", "r">> \o S_dotGit }

\* The index and working tree that equal HEAD.
CleanPaths(r) == [p \in Range(IndexPaths) |-> HeadBlob(r, p)]

\* The repositories a local path opens: up to MaxChain commits in a chain; the
\* index and working tree equal to HEAD, or with one change to path a or n.
LocalChanges(r) ==
    LET c == CleanPaths(r) IN
    { <<c, c>>,
      <<[c EXCEPT !["a"] = "b2"], [c EXCEPT !["a"] = "b2"]>>,
      <<[c EXCEPT !["n"] = "b1"], [c EXCEPT !["n"] = "b1"]>>,
      <<c, [c EXCEPT !["a"] = IF c["a"] = "none" THEN "none" ELSE "b2"]>> }

BareRepos ==
    { r \in { [n |-> n, parents |-> Chain(n), ctime |-> Ident(n),
               root |-> RootOf(n), badTrees |-> bad, missing |-> miss,
               index |-> <<>>, work |-> NoWork] :
                n \in 0..MaxChain, bad \in {{}, {1}}, miss \in {{}, {"b1"}} } :
        r.badTrees \subseteq 1..r.n }

LocalRepos ==
    UNION { { [r EXCEPT !.index = IndexOf(fw[1]), !.work = fw[2]] :
                fw \in LocalChanges(r) } : r \in BareRepos }

\* What a clone yields: every object present, the index and the working
\* tree equal to HEAD.
ClonedRepos ==
    { [r EXCEPT !.index = IndexOf(CleanPaths(r)), !.work = CleanPaths(r)] :
        r \in { x \in BareRepos : x.badTrees = {} /\ x.missing = {} } }

\* ioutil.TempDir creates a directory that did not exist.
FreshDir(dirs) ==
    CHOOSE d \in 1..(Cardinality(dirs) + 1) :
        d \notin dirs /\ \A e \in 1..(d - 1) : e \in dirs

\* Lines 282-294: the directories on disk after git.Clone into d ended with
\* res; nothing removes d.
DirsAfterClone_Cleanup(dirs, d, res) ==
    IF res = "ok" THEN dirs ELSE dirs \ {d}

DirsAfterClone(dirs, d, res) == dirs

\* Line 77: whether objectsFromCommit is called.
HistoryEnabled_Either(o) == o.CommitFiles \/ o.CommitMessages

HistoryEnabled(o) == o.CommitFiles /\ o.CommitMessages

\* Lines 80 and 88: what is returned when an extractor failed.
ErrorReturn_KeepList(list, err) == [list |-> list, err |-> err]

ErrorReturn(list, err) == [list |-> Nil, err |-> err]

\* Lines 82 and 90: append(objectList, extracted...)
AppendAll_Front(list, extracted) == extracted \o list

AppendAll(list, extracted) == list \o extracted

Op(name) == [op |-> name, out |-> <<>>]
Returned(name, list) == [op |-> name, out |-> list]

\* Line 67: LoadObjects is called.
LO_Call ==
    /\ pc \in {"idle", "done"}
    /\ calls < MaxCalls
    /\ \E s \in Sources, o \in { prepareGitLoadOptions(m) : m \in OptMaps } :
         /\ source' = s
         /\ opt' = o
    /\ calls' = calls + 1
    /\ pc' = "lo_open"
    /\ gitUri' = <<S_empty, FALSE>>
    /\ repo' = NoRepo
    /\ args' = NoArgs
    /\ walk' = <<>>
    /\ objs' = <<>>
    /\ i' = 0
    /\ sub' = NoSub
    /\ objectList' = <<>>
    /\ ret' = NoSub
    /\ log' = <<>>
    /\ UNCHANGED <<tmpdirs, past>>

\* Lines 72-75, 259-268, 297-304: openGitRepo on a local source.
LO_OpenLocal ==
    /\ pc = "lo_open"
    /\ ~normalizeGitUri(source)[2]
    /\ gitUri' = normalizeGitUri(source)
    /\ log' = log \o << Op("openGitRepo"), Op("OpenRepositoryExtended") >>
    /\ past' = Append(past, [remote |-> FALSE, dir |-> 0])
    /\ \E ok \in BOOLEAN :
         IF ok
         THEN /\ repo' \in LocalRepos
              /\ pc' = "lo_commit"
              /\ UNCHANGED ret
         ELSE /\ ret' = [list |-> Nil, err |-> "ErrOpen"]
              /\ pc' = "done"
              /\ UNCHANGED repo
    /\ UNCHANGED <<source, opt, args, walk, objs, i, sub, objectList,
                   tmpdirs, calls>>

\* Lines 72-75, 259-268, 273-280: openGitRepo on a remote source, up to
\* ioutil.TempDir.
LO_TempDir ==
    /\ pc = "lo_open"
    /\ normalizeGitUri(source)[2]
    /\ gitUri' = normalizeGitUri(source)
    /\ log' = log \o << Op("openGitRepo"), Op("TempDir") >>
    /\ \E ok \in BOOLEAN :
         IF ok
         THEN /\ tmpdirs' = tmpdirs \cup {FreshDir(tmpdirs)}
              /\ past' = Append(past, [remote |-> TRUE,
                                        dir |-> FreshDir(tmpdirs)])
              /\ pc' = "lo_clone"
              /\ UNCHANGED ret
         ELSE /\ ret' = [list |-> Nil, err |-> "ErrTempDir"]
              /\ past' = Append(past, [remote |-> TRUE, dir |-> 0])
              /\ pc' = "done"
              /\ UNCHANGED tmpdirs
    /\ UNCHANGED <<source, opt, repo, args, walk, objs, i, sub, objectList,
                   calls>>

\* git.Clone asks credentialsCallback for a key when the transport wants
\* one; the callback panics when the ssh configuration does not serve.
CloneOutcomes ==
    { [cred |-> FALSE, res |-> "ok"], [cred |-> FALSE, res |-> "err"],
      [cred |-> TRUE, res |-> "ok"], [cred |-> TRUE, res |-> "err"],
      [cred |-> TRUE, res |-> "panic"] }

\* Lines 282-294, 204-235: git.Clone into the temporary directory.
LO_Clone ==
    /\ pc = "lo_clone"
    /\ \E c \in CloneOutcomes :
         /\ log' = log \o << Op("Clone") >>
                        \o (IF c.cred THEN << Op("credentialsCallback") >>
                                      ELSE <<>>)
         /\ tmpdirs' = DirsAfterClone(tmpdirs, past[Len(past)].dir, c.res)
         /\ IF c.res = "ok"
            THEN /\ repo' \in ClonedRepos
                 /\ pc' = "lo_commit"
                 /\ UNCHANGED ret
            ELSE IF c.res = "err"
            THEN /\ ret' = [list |-> Nil, err |-> "ErrClone"]
                 /\ pc' = "done"
                 /\ UNCHANGED repo
            ELSE /\ pc' = "panic"
                 /\ UNCHANGED <<repo, ret>>
    /\ UNCHANGED <<source, opt, gitUri, args, walk, objs, i, sub,
                   objectList, past, calls>>

\* Lines 77-78: the call of objectsFromCommit, or its skipping.
LO_Commit ==
    /\ pc = "lo_commit"
    /\ IF HistoryEnabled(opt)
       THEN /\ args' = [commitFiles |-> opt.CommitFiles,
                        commitMessages |-> opt.CommitMessages,
                        count |-> opt.CommitCount]
            /\ log' = Append(log, Op("objectsFromCommit"))
            /\ pc' = "oc_walk"
       ELSE /\ pc' = "lo_staged"
            /\ UNCHANGED <<args, log>>
    /\ objs' = <<>>
    /\ walk' = <<>>
    /\ UNCHANGED <<source, opt, gitUri, repo, i, sub, objectList, ret,
                   tmpdirs, past, calls>>

\* Lines 78-83: objectsFromCommit returned.
LO_CommitRet ==
    /\ pc = "oc_ret"
    /\ log' = Append(log, Returned("return objectsFromCommit", sub.list))
    /\ IF sub.err # NoErr
       THEN /\ ret' = ErrorReturn(objectList, sub.err)
            /\ pc' = "done"
            /\ UNCHANGED objectList
       ELSE /\ objectList' = AppendAll(objectList, sub.list)
            /\ pc' = "lo_staged"
            /\ UNCHANGED ret
    /\ UNCHANGED <<source, opt, gitUri, repo, args, walk, objs, i, sub,
                   tmpdirs, past, calls>>

\* Lines 85-86, 93: the call of objectsFromStagedFiles, or the return
\* without it.
LO_Staged ==
    /\ pc = "lo_staged"
    /\ IF opt.StagedFiles
       THEN /\ log' = Append(log, Op("objectsFromStagedFiles"))
            /\ pc' = "sf_index"
            /\ UNCHANGED ret
       ELSE /\ ret' = [list |-> objectList, err |-> NoErr]
            /\ pc' = "done"
            /\ UNCHANGED log
    /\ objs' = <<>>
    /\ i' = 0
    /\ UNCHANGED <<source, opt, gitUri, repo, args, walk, sub, objectList,
                   tmpdirs, past, calls>>

\* Lines 86-93: objectsFromStagedFiles returned, and LoadObjects returns.
LO_StagedRet ==
    /\ pc = "sf_ret"
    /\ log' = Append(log, Returned("return objectsFromStagedFiles", sub.list))
    /\ IF sub.err # NoErr
       THEN /\ ret' = ErrorReturn(objectList, sub.err)
            /\ UNCHANGED objectList
       ELSE /\ objectList' = AppendAll(objectList, sub.list)
            /\ ret' = [list |-> AppendAll(objectList, sub.list),
                       err |-> NoErr]
    /\ pc' = "done"
    /\ UNCHANGED <<source, opt, gitUri, repo, args, walk, objs, i, sub,
                   tmpdirs, past, calls>>

Init ==
    /\ pc = "idle"
    /\ source = S_empty
    /\ opt = NoOpt
    /\ gitUri = <<S_empty, FALSE>>
    /\ repo = NoRepo
    /\ args = NoArgs
    /\ walk = <<>>
    /\ objs = <<>>
    /\ i = 0
    /\ sub = NoSub
    /\ objectList = <<>>
    /\ ret = NoSub
    /\ tmpdirs = {}
    /\ log = <<>>
    /\ past = <<>>
    /\ calls = 0

Next ==
    \/ LO_Call
    \/ LO_OpenLocal
    \/ LO_TempDir
    \/ LO_Clone
    \/ LO_Commit
    \/ OC_Walk
    \/ OC_Push
    \/ OC_Iterate
    \/ LO_CommitRet
    \/ LO_Staged
    \/ ST_Index
    \/ ST_Entry
    \/ LO_StagedRet

Spec == Init /\ [][Next]_vars

-----------------------------------------------------------------------------
(* normalizeGitUri on its own *)

\* The strings normalizeGitUri is run on: well-formed and malformed pieces
\* in the places of the locator.
UriPrefixes ==
    { p \o S_colonSlashSlash : p \in {S_http, S_https, S_git, S_ssh, S_ftp} }
    \cup { S_gitAt, S_empty, <<"/">> }
UriHosts == { <<"h">>, <<"h", ".", "c">>, <<"h", "|", "c">>, S_empty }
UriSeps == { <<"/">>, <<":">>, <<"|">> }
UriOrgs == { <<"o">>, <<"o", ":", "p">>, <<"o", "/", "p">>, S_empty }
UriRepos == { <<"r">>, <<"r", ".", "s">>, <<"r", "g">>, S_empty }
UriSuffixes ==
    { S_dotGit, <<"x", "g", "i", "t">>, <<"/", "g", "i", "t">>,
      <<".", "g", "i", "t", "/">>, S_empty }

UriInputs ==
    { p \o h \o s \o o \o S_slash \o r \o x :
        p \in UriPrefixes, h \in UriHosts, s \in UriSeps, o \in UriOrgs,
        r \in UriRepos, x \in UriSuffixes }

InitUri ==
    /\ pc = "nz_call"
    /\ source \in UriInputs
    /\ repo = NoRepo
    /\ args = NoArgs
    /\ opt = NoOpt
    /\ gitUri = <<S_empty, FALSE>>
    /\ walk = <<>>
    /\ objs = <<>>
    /\ i = 0
    /\ sub = NoSub
    /\ objectList = <<>>
    /\ ret = NoSub
    /\ tmpdirs = {}
    /\ log = <<>>
    /\ past = <<>>
    /\ calls = 0

\* Lines 237-257
NZ_Normalize ==
    /\ pc = "nz_call"
    /\ gitUri' = normalizeGitUri(source)
    /\ pc' = "nz_ret"
    /\ UNCHANGED <<source, opt, repo, args, walk, objs, i, sub,
                   objectList, ret, tmpdirs, log, past, calls>>

NextUri == NZ_Normalize

SpecUri == InitUri /\ [][NextUri]_vars

-----------------------------------------------------------------------------
(* Properties *)

HasMeta(o, k) == \E j \in 1..Len(o.metadata) : o.metadata[j].key = k
MetaValue(o, k) ==
    o.metadata[CHOOSE j \in 1..Len(o.metadata) : o.metadata[j].key = k].value
IsHistoryObject(o) == o.subtype = "commit-message" \/ HasMeta(o, "commit")
IsStagedObject(o) == HasMeta(o, "status")
IsMessage(o) == o.subtype = "commit-message"
Messages(list) == SelectSeq(list, IsMessage)
MessageCommits(list) == { MetaValue(o, "commit") : o \in Range(Messages(list)) }
K(r) == Cardinality(Reachable(r))
LogOps == { log[j].op : j \in 1..Len(log) }
IsComponent(e) ==
    e.op \in {"openGitRepo", "objectsFromCommit", "objectsFromStagedFiles"}
Components ==
    LET c == SelectSeq(log, IsComponent) IN [j \in 1..Len(c) |-> c[j].op]
OutOf(name) ==
    IF name \in LogOps
    THEN log[CHOOSE j \in 1..Len(log) : log[j].op = name].out
    ELSE <<>>

\* The commits a walk bounded by count covers: HEAD~count..HEAD when that
\* range resolves, every commit reachable from HEAD otherwise.
ExpectedCommits(r, count) ==
    IF count > 0 /\ RangeFrom(r, count) # 0
    THEN Reachable(r) \ Reach(r, RangeFrom(r, count))
    ELSE Reachable(r)

\* What the extractors that run are to produce on repository r.
ExpectedHistory(r, o) ==
    IF o.CommitFiles /\ o.CommitMessages
    THEN LET cs == ExpectedCommits(r, o.CommitCount) IN
         { CommitMessageObject(c) : c \in cs }
         \cup UNION { Range(FileObjects(r, c)) : c \in cs }
    ELSE {}

ExpectedStaged(r, o) ==
    IF o.StagedFiles
    THEN { StagedObject(e) :
             e \in { x \in Range(r.index) : StatusFile(r, x) # StatusCurrent } }
    ELSE {}

\* C1: LoadObjects returns an error with a nil list, or no error with the
\* complete list: one object for each the extractors that ran are to
\* produce, and nothing else.
C1_AllOrNothing ==
    pc = "done" =>
        /\ ret.err # NoErr => ret.list = Nil
        /\ ret.err = NoErr =>
              LET want == ExpectedHistory(repo, opt) \cup ExpectedStaged(repo, opt)
              IN /\ Range(ret.list) = want
                 /\ Len(ret.list) = Cardinality(want)

\* The staged extractor failed after history objects had been collected.
C1_Witness ==
    /\ pc = "done"
    /\ ret.err \in {"ErrIndex", "ErrStatus", "ErrLookupBlob"}
    /\ objectList # <<>>
    /\ ret.list = Nil

C3_HistoryOnAnyFlag ==
    (pc = "done" /\ ret.err = NoErr /\ (opt.CommitFiles \/ opt.CommitMessages)) =>
        /\ "objectsFromCommit" \in LogOps
        /\ opt.CommitMessages =>
              \A c \in ExpectedCommits(repo, opt.CommitCount) :
                  CommitMessageObject(c) \in Range(ret.list)
        /\ opt.CommitFiles =>
              \A c \in ExpectedCommits(repo, opt.CommitCount) :
                  Range(FileObjects(repo, c)) \subseteq Range(ret.list)

\* C4: the resolver is called once and first, no extractor runs when it
\* failed, the history extractor runs before the staged one, and the list
\* returned is the output of the first followed by the output of the second.
C4_FixedOrder ==
    /\ Components \in
          { <<>>, <<"openGitRepo">>,
            <<"openGitRepo", "objectsFromCommit">>,
            <<"openGitRepo", "objectsFromStagedFiles">>,
            <<"openGitRepo", "objectsFromCommit", "objectsFromStagedFiles">> }
    /\ (pc = "done" /\ ret.err \in {"ErrOpen", "ErrTempDir", "ErrClone"})
          => Components = <<"openGitRepo">>
    /\ (opt.CommitFiles /\ opt.CommitMessages
          /\ "objectsFromStagedFiles" \in LogOps)
          => "objectsFromCommit" \in LogOps
    /\ (pc = "done" /\ ret.err = NoErr) =>
          /\ ret.list = OutOf("return objectsFromCommit")
                           \o OutOf("return objectsFromStagedFiles")
          /\ \A a, b \in 1..Len(ret.list) :
                (a < b /\ IsStagedObject(ret.list[a]))
                    => ~IsHistoryObject(ret.list[b])

\* Both extractors ran and each contributed objects.
C4_Witness ==
    /\ pc = "done"
    /\ ret.err = NoErr
    /\ \E o \in Range(ret.list) : IsHistoryObject(o)
    /\ \E o \in Range(ret.list) : IsStagedObject(o)

\* The commits of the n latest commit times among those reachable from HEAD.
MostRecent(r, n) == Range(SubSeq(SortTime(r, Reachable(r)), 1, n))

\* C5: with both flags and 1 <= commitCount = n < k, exactly n commit-message
\* objects are returned, those of the n commits of the latest commit times.
C5_ExactlyNMostRecent ==
    (/\ pc = "oc_ret"
     /\ sub.err = NoErr
     /\ args.commitFiles /\ args.commitMessages
     /\ 1 <= args.count /\ args.count < K(repo)) =>
        /\ Len(Messages(sub.list)) = args.count
        /\ MessageCommits(sub.list)
             = { Hash(c) : c \in MostRecent(repo, args.count) }

C7_ExactlyStagedPaths ==
    (pc = "sf_ret" /\ sub.err = NoErr) =>
        LET differ == { e \in Range(repo.index) : e.id # HeadBlob(repo, e.path) }
        IN /\ Range(sub.list) = { StagedObject(e) : e \in differ }
           /\ Len(sub.list) = Cardinality(differ)

\* The locator grammar: <proto>://<host><sep><org>/<repo>.git or
\* git@<host><sep><org>/<repo>.git, the host read as the code reads it
\* (no ':', '|' or '/'), the suffix the four characters ".git".
GrammarMatches(s) ==
    LET n == Len(s) IN
    { m \in [pre : gitregexpPrefixes, h : 1..n, o : 1..n] :
        LET L == Len(m.pre.lit) IN
        /\ L <= n /\ SubSeq(s, 1, L) = m.pre.lit
        /\ m.h > L /\ AllChars(SubSeq(s, L + 1, m.h), HostChar)
        /\ m.h + 1 <= n /\ s[m.h + 1] \in {"/", ":"}
        /\ m.o >= m.h + 2 /\ AllChars(SubSeq(s, m.h + 2, m.o), OrgChar)
        /\ m.o + 1 <= n /\ s[m.o + 1] = "/"
        /\ n - 4 >= m.o + 2 /\ AllChars(SubSeq(s, m.o + 2, n - 4), RepoChar)
        /\ SubSeq(s, n - 3, n) = S_dotGit }

GrammarNormalize(s) ==
    IF GrammarMatches(s) = {} THEN <<s, FALSE>>
    ELSE LET m == CHOOSE x \in GrammarMatches(s) : TRUE
             L == Len(m.pre.lit)
             n == Len(s)
         IN << (IF m.pre.u1 = S_empty THEN S_ssh ELSE m.pre.u1)
                 \o S_colonSlashSlash \o m.pre.u2 \o SubSeq(s, L + 1, m.h)
                 \o S_slash \o SubSeq(s, m.h + 2, m.o)
                 \o S_slash \o SubSeq(s, m.o + 2, n - 4) \o S_dotGit, TRUE >>

\* C8: normalizeGitUri returns what the locator grammar prescribes on every
\* string: the canonical form and true on a match, the string and false
\* otherwise.
C8_AgreesWithGrammar ==
    pc = "nz_ret" => gitUri = GrammarNormalize(source)

\* C9: an error while traversing the tree of a visited commit never ends
\* objectsFromCommit: the walk goes on to the later commits and, the walk
\* itself not failing, every commit pushed has its message in the result.
C9_TreeErrorsSwallowed ==
    /\ pc # "panic"
    /\ (pc = "oc_ret" /\ sub.err = NoErr /\ args.commitMessages) =>
          MessageCommits(sub.list)
            = { Hash(c) : c \in ExpectedCommits(repo, args.count) }

Allocated == { past[j].dir : j \in 1..Len(past) } \ {0}
RemoteCalls == { j \in 1..Len(past) : past[j].remote }

\* C10 as stated: every call on a remote locator allocates one fresh
\* temporary directory, a call on a local locator none, and no directory is
\* ever removed: there is one directory per remote call.
C10_OneDirPerRemoteCall ==
    /\ \A j \in RemoteCalls : past[j].dir # 0
    /\ \A j \in 1..Len(past) : ~past[j].remote => past[j].dir = 0
    /\ \A j, k \in RemoteCalls : j # k => past[j].dir # past[k].dir
    /\ tmpdirs = Allocated
    /\ Cardinality(tmpdirs) = Cardinality(RemoteCalls)

\* C10 as amended: a call on a remote locator whose ioutil.TempDir succeeds
\* allocates one directory distinct from every earlier one; one whose TempDir
\* fails allocates none, returns that error and does not clone; a call on a
\* local locator allocates none and calls neither TempDir, Clone nor the
\* credential callback; no directory is ever removed, so the directories on
\* disk are those allocated, at most one per remote call.
C10_DirsOnlyGrow ==
    /\ \A j \in 1..Len(past) : ~past[j].remote => past[j].dir = 0
    /\ \A j, k \in RemoteCalls :
          (j # k /\ past[j].dir # 0) => past[j].dir # past[k].dir
    /\ tmpdirs = Allocated
    /\ Cardinality(tmpdirs) <= Cardinality(RemoteCalls)
    /\ (pc \notin {"idle", "lo_open"} /\ ~past[Len(past)].remote) =>
          LogOps \cap {"TempDir", "Clone", "credentialsCallback"} = {}
    /\ (pc \notin {"idle", "lo_open"} /\ past[Len(past)].remote) =>
          IF past[Len(past)].dir = 0
          THEN pc = "done" /\ ret.err = "ErrTempDir" /\ "Clone" \notin LogOps
          ELSE "TempDir" \in LogOps /\ ret.err # "ErrTempDir"

\* Two remote calls, the second one's clone failed, both directories on disk.
C10_Witness ==
    /\ pc = "done"
    /\ Len(past) = 2
    /\ past[1].remote /\ past[2].remote
    /\ ret.err = "ErrClone"
    /\ Cardinality(tmpdirs) = 2

=============================================================================
